---- MODULE Spec2Model ----
(***************************************************************************)
(* Model of tradingview-api-data-extractor.py: the polling loop of main,   *)
(* the retry protocol of get_tradingview_price, the moving-average         *)
(* crossover of get_swing_signal, the preload of the price windows and     *)
(* the change-triggered signal log.                                        *)
(*                                                                         *)
(* Conventions.                                                            *)
(*  - Time is in milliseconds since midnight (US/Eastern) of the day on    *)
(*    which main is entered; market_open and market_close are taken on     *)
(*    the day of the reading of line 102, as lines 102-105 do.             *)
(*  - The clock advances by every time.sleep of the program (lines 34,     *)
(*    98, 100, 135, 137 and 145), by exactly the requested duration, and   *)
(*    by nothing else: an upstream call and the statements between two     *)
(*    sleeps take no time. SpecSleep alone lets the clock move between     *)
(*    the readings of lines 110 and 120.                                   *)
(*  - A price is a Python float, an IEEE 754 double: the record            *)
(*    [e, h, l] stands for (h * 2^28 + l) * 2^e with a 53-bit mantissa     *)
(*    h * 2^28 + l, and ZERO for 0. Sums and quotients are rounded to      *)
(*    nearest, ties to even.                                               *)
(*  - The builtin sum of floats depends on the interpreter, and the        *)
(*    repository pins none: CPython up to 3.11 adds from 0, left to right, *)
(*    rounding every partial sum; CPython from 3.12 carries a compensation *)
(*    (Neumaier) and adds it at the end. The variable interpreter, chosen  *)
(*    at the start of a run and never changed, says which.                 *)
(*  - A record of the log holds the arguments of log_signal other than     *)
(*    the timestamp.                                                       *)
(*  - None (no price) is NONE, a value outside the floats.                 *)
(*  - The upstream is the environment. Spec and SpecHandover explore the   *)
(*    least and the greatest price of Prices and an error other than 429   *)
(*    for every call; SpecPreload, SpecThrottle and SpecE2E add the 429    *)
(*    answers; SpecLive explores whole days of an upstream in outage.      *)
(***************************************************************************)
EXTENDS Integers, Sequences, FiniteSets, TLC

\* ---------------------------------------------------------------- bounds
NumTickers == 2      \* how many of the configured TICKERS are modelled
MaxPrice   == 2      \* upstream prices range over 0.10 * k, k in 1..MaxPrice
MaxTicks   == 2      \* polling iterations explored in one run
MaxQuotes  == 3      \* successful upstream answers in one run
MaxLimitedCalls == 1 \* calls of get_tradingview_price that meet a 429 in one run
MaxEdits   == 2      \* SpecSignal: entries of a window that differ from its base price
MaxDrift   == 2      \* SpecSleep: milliseconds between the clock readings of lines 110 and 120
MaxLiveTicks == 70   \* SpecLive: polling iterations of one run (a session has at most 67)

\* ------------------------------------------------------- program constants
SHORT_MA == 5
LONG_MA == 15
HIGH_FREQ_INTERVAL == 60
HIGH_FREQ_DURATION == 30
RETRIES == 3
RETRY_DELAY == 5
PRELOAD_DELAY_MS == 1500
STAGGER_DELAY == 1
OPEN_HOUR == 9
OPEN_MINUTE == 30
CLOSE_HOUR == 16
GRID_MINUTES == 10
MIN_LOW_FREQ_SLEEP == 5
MIN_WAIT_SLEEP == 30

\* n seconds in the unit of the clock.
Seconds(n) == n * 1000

DAY == Seconds(24 * 3600)

TICKERS == 1..NumTickers

\* --------------------------------------------------------------- floats
ZERO == [e |-> 0, h |-> 0, l |-> 0]

NONE == [none |-> TRUE]

\* The number of binary digits of n, for 1 <= n < 2^25.
BitLen(n) == CHOOSE k \in 1..25 : 2^(k - 1) <= n /\ n < 2^k

\* Rounds (H * 2^28 + L) * 2^e, a value with 56 or 57 significant bits followed
\* by a nonzero remainder iff sticky, to a double: nearest, ties to even.
RoundExt(H, L, sticky, e) ==
    LET wide == H >= 2^28
        H1 == IF wide THEN H \div 2 ELSE H
        L1 == IF wide THEN (H % 2) * 2^27 + (L \div 2) ELSE L
        st == IF wide THEN sticky \/ L % 2 = 1 ELSE sticky
        e1 == IF wide THEN e + 1 ELSE e
        low3 == L1 % 8
        h == H1 \div 8
        l == (H1 % 8) * 2^25 + (L1 \div 8)
        up == low3 > 4 \/ (low3 = 4 /\ (st \/ l % 2 = 1))
    IN  IF ~up THEN [e |-> e1 + 3, h |-> h, l |-> l]
        ELSE IF l + 1 < 2^28 THEN [e |-> e1 + 3, h |-> h, l |-> l + 1]
        ELSE IF h + 1 < 2^25 THEN [e |-> e1 + 3, h |-> h + 1, l |-> 0]
        ELSE [e |-> e1 + 4, h |-> 2^24, l |-> 0]

\* x + y for floats that are ZERO or positive.
FAdd(x, y) ==
    IF x = ZERO THEN y
    ELSE IF y = ZERO THEN x
    ELSE LET big == IF x.e >= y.e THEN x ELSE y
             small == IF x.e >= y.e THEN y ELSE x
             d == big.e - small.e
             bH == big.h * 8 + (big.l \div 2^25)
             bL == (big.l % 2^25) * 8
             sH0 == small.h * 8 + (small.l \div 2^25)
             sL0 == (small.l % 2^25) * 8
             sH == IF d < 28 THEN sH0 \div 2^d ELSE 0
             sL == IF d < 28 THEN (sH0 % 2^d) * 2^(28 - d) + (sL0 \div 2^d)
                   ELSE IF d < 56 THEN sH0 \div 2^(d - 28)
                   ELSE 0
             sticky == IF d < 28 THEN sL0 % 2^d # 0
                       ELSE IF d < 56 THEN sH0 % 2^(d - 28) # 0 \/ sL0 # 0
                       ELSE TRUE
             sumL == bL + sL
         IN  RoundExt(bH + sH + (sumL \div 2^28), sumL % 2^28, sticky, big.e - 3)

\* x / n for a positive float x and an integer n, 1 <= n < 128.
FDivInt(x, n) ==
    LET c3 == x.h \div 2^14
        c2 == x.h % 2^14
        c1 == x.l \div 2^14
        c0 == x.l % 2^14
        t2 == (c3 % n) * 2^14 + c2
        t1 == (t2 % n) * 2^14 + c1
        t0 == (t1 % n) * 2^14 + c0
        UH == (c3 \div n) * 2^14 + (t2 \div n)
        UL == (t1 \div n) * 2^14 + (t0 \div n)
        j == BitLen(n) + 3
        r == (t0 % n) * 2^j
    IN  RoundExt(UH * 2^j + (UL \div 2^(28 - j)),
                 (UL % 2^(28 - j)) * 2^j + (r \div n),
                 r % n # 0,
                 x.e - j)

\* float(a) for an integer a, 1 <= a < 2^25.
FloatOfInt(a) == [e |-> BitLen(a) - 53, h |-> a * 2^(25 - BitLen(a)), l |-> 0]

\* The float of the decimal c / 100, as the parser of the upstream's answer
\* gives it.
FloatOfCents(c) == FDivInt(FloatOfInt(c), 100)

\* x < y for positive floats.
FLess(x, y) ==
    \/ x.e < y.e
    \/ x.e = y.e /\ x.h < y.h
    \/ x.e = y.e /\ x.h = y.h /\ x.l < y.l

\* sum(s) as CPython up to 3.11 computes it: from 0, left to right, every
\* partial sum rounded.
RECURSIVE FSumFrom(_, _)
FSumFrom(acc, s) ==
    IF s = <<>> THEN acc ELSE FSumFrom(FAdd(acc, Head(s)), Tail(s))

\* The least exponent of the floats of a non-empty sequence.
MinExp(s) ==
    CHOOSE m \in {s[i].e : i \in DOMAIN s} : \A i \in DOMAIN s : m <= s[i].e

\* The three 28-bit limbs, lowest first, of the mantissa of x shifted left by
\* k bits, 0 <= k < 28.
Limbs(x, k) ==
    <<(x.l % 2^(28 - k)) * 2^k,
      (x.h % 2^(28 - k)) * 2^k + (x.l \div 2^(28 - k)),
      x.h \div 2^(28 - k)>>

\* (f + x - t) / 2^m for t = FAdd(f, x): the rounding error of the sum, an
\* integer when no exponent is below m. It is what (f - t) + x gives, or
\* (x - t) + f when x is the larger: neither expression rounds. The
\* exponents of f, x and t are less than 28 above m.
TwoSumErr(f, x, t, m) ==
    LET F == Limbs(f, f.e - m)
        X == Limbs(x, x.e - m)
        T == Limbs(t, t.e - m)
    IN  ((F[3] + X[3] - T[3]) * 2^28 + (F[2] + X[2] - T[2])) * 2^28
            + (F[1] + X[1] - T[1])

\* f + c * 2^m for a positive float f and an integer c, 0 < |c| < 2^26, with
\* m <= f.e: the sum and its compensation.
FAddComp(f, c, m) ==
    LET k == f.e - m
        q == IF k >= 4 THEN c \div 2^(k - 4) ELSE c * 2^(4 - k)
        st == k >= 4 /\ c % 2^(k - 4) # 0
        L1 == (f.l % 2^24) * 16 + q
        H == f.h * 16 + (f.l \div 2^24) + (L1 \div 2^28)
        L == L1 % 2^28
    IN  IF H >= 2^29
        THEN RoundExt(H \div 2, (H % 2) * 2^27 + (L \div 2),
                      st \/ L % 2 = 1, f.e - 3)
        ELSE RoundExt(H, L, st, f.e - 4)

\* The loop of the compensated sum: f is the running sum, c * 2^m the
\* running compensation, which the additions of the errors do not round.
RECURSIVE FSumCompensatedFrom(_, _, _, _)
FSumCompensatedFrom(f, c, s, m) ==
    IF s = <<>> THEN IF c = 0 THEN f ELSE FAddComp(f, c, m)
    ELSE LET t == FAdd(f, Head(s))
         IN  FSumCompensatedFrom(t, c + TwoSumErr(f, Head(s), t, m), Tail(s), m)

\* sum(s) as CPython from 3.12 computes it (Neumaier's compensated
\* summation), for a non-empty sequence of positive floats within a factor
\* 2^16 of one another.
FSumCompensated(s) == FSumCompensatedFrom(Head(s), 0, Tail(s), MinExp(s))

\* The interpreter that runs the program: the repository pins none, and the
\* builtin sum of floats is not the same function across them.
VARIABLE interpreter

Interpreters == {"naive", "compensated"}

\* sum(s) of line 46 and line 47.
sum(s) ==
    IF interpreter = "naive" THEN FSumFrom(ZERO, s) ELSE FSumCompensated(s)

\* The closes the upstream answers: 0.10, 0.20, ...
Prices == {FloatOfCents(10 * k) : k \in 1..MaxPrice}

\* The closes the upstream answers to main in the runs explored: the least and
\* the greatest of Prices.
QuotedPrices == {FloatOfCents(10), FloatOfCents(10 * MaxPrice)}

\* Closes that are whole numbers: 1.0, 2.0, ...
WholePrices == {FloatOfInt(k) : k \in 1..MaxPrice}

\* --------------------------------------------------------------- clock
Hour(t) == (t % DAY) \div Seconds(3600)
Minute(t) == (t % Seconds(3600)) \div Seconds(60)
Midnight(t) == t - (t % DAY)

\* datetime.replace(hour=h, minute=m, second=0, microsecond=0)
ReplaceHM(t, h, m) == Midnight(t) + Seconds(h * 3600 + m * 60)

Max(a, b) == IF a >= b THEN a ELSE b

market_open(start) == ReplaceHM(start, OPEN_HOUR, OPEN_MINUTE)
market_close(start) == ReplaceHM(start, CLOSE_HOUR, 0)
high_freq_end(start) == market_open(start) + Seconds(HIGH_FREQ_DURATION * 60)

get_next_10min_run(t) ==
    LET m0 == ((Minute(t) \div 10) + 1) * 10
        next_minute == IF m0 >= 60 THEN m0 - 60 ELSE m0
        next_hour == IF m0 >= 60 THEN Hour(t) + 1 ELSE Hour(t)
        next_run == ReplaceHM(t, next_hour % 24, next_minute)
    IN  IF next_run <= t THEN next_run + Seconds(GRID_MINUTES * 60) ELSE next_run

\* The branch of the loop body taken for a reading t of the clock (lines 111-145).
PhaseOfMutClosedPolls(start, t) ==
    IF market_open(start) <= t
    THEN IF t < high_freq_end(start) THEN "HighFrequency" ELSE "LowFrequency"
    ELSE "BeforeOpen"

PhaseOfMutSwapped(start, t) ==
    IF market_open(start) <= t /\ t <= market_close(start)
    THEN IF t < high_freq_end(start) THEN "LowFrequency" ELSE "HighFrequency"
    ELSE IF t > market_close(start) THEN "Closed" ELSE "BeforeOpen"

PhaseOfMutBoundary(start, t) ==
    IF market_open(start) <= t /\ t <= market_close(start)
    THEN IF t <= high_freq_end(start) THEN "HighFrequency" ELSE "LowFrequency"
    ELSE IF t > market_close(start) THEN "Closed" ELSE "BeforeOpen"

PhaseOf(start, t) ==
    IF market_open(start) <= t /\ t <= market_close(start)
    THEN IF t < high_freq_end(start) THEN "HighFrequency" ELSE "LowFrequency"
    ELSE IF t > market_close(start) THEN "Closed" ELSE "BeforeOpen"

\* tv_interval / history chosen by a polling iteration (lines 112-118).
IntervalOfMutAlways1m(phase) == "1m"

IntervalOf(phase) == IF phase = "HighFrequency" THEN "1m" ELSE "15m"

\* sleep_interval of a polling iteration (lines 113, 119-120), in milliseconds;
\* t2 is the second reading of the clock on line 120.
SleepIntervalOfMutNoFloor(phase, t, t2) ==
    IF phase = "HighFrequency"
    THEN Seconds(HIGH_FREQ_INTERVAL)
    ELSE get_next_10min_run(t) - t2

SleepIntervalOf(phase, t, t2) ==
    IF phase = "HighFrequency"
    THEN Seconds(HIGH_FREQ_INTERVAL)
    ELSE Max(Seconds(MIN_LOW_FREQ_SLEEP), get_next_10min_run(t) - t2)

\* sleep_seconds before the open (line 143): timedelta.seconds is the whole
\* seconds of the difference.
WaitSeconds(start, t) ==
    Max(MIN_WAIT_SLEEP, (market_open(start) - t) \div Seconds(1))

\* ------------------------------------------------------- moving averages
LastN(s, n) == IF Len(s) <= n THEN s ELSE SubSeq(s, Len(s) - n + 1, Len(s))

\* deque(maxlen=LONG_MA).append
DequeAppendMutNoEvict(q, x) == Append(q, x)

DequeAppend(q, x) ==
    IF Len(q) >= LONG_MA THEN Append(Tail(q), x) ELSE Append(q, x)

RECURSIVE AppendTimes(_, _, _)
AppendTimes(q, x, n) ==
    IF n = 0 THEN q ELSE AppendTimes(DequeAppend(q, x), x, n - 1)

\* The comparison of lines 48-53.
CrossoverMutGeq(short_ma, long_ma) ==
    IF ~FLess(short_ma, long_ma) THEN "BUY"
    ELSE IF FLess(short_ma, long_ma) THEN "SELL"
    ELSE "HOLD"

Crossover(short_ma, long_ma) ==
    IF FLess(long_ma, short_ma) THEN "BUY"
    ELSE IF FLess(short_ma, long_ma) THEN "SELL"
    ELSE "HOLD"

get_swing_signalMutBefore(price_history, price) ==
    LET h == DequeAppend(price_history, price)
    IN  IF Len(price_history) < LONG_MA
        THEN [history |-> h, signal |-> "HOLD", short_ma |-> ZERO, long_ma |-> ZERO]
        ELSE LET short_ma == FDivInt(sum(LastN(h, SHORT_MA)), SHORT_MA)
                 long_ma == FDivInt(sum(h), LONG_MA)
             IN  [history |-> h, signal |-> Crossover(short_ma, long_ma),
                  short_ma |-> short_ma, long_ma |-> long_ma]

\* get_swing_signal: the window after the append and the returned triple.
get_swing_signal(price_history, price) ==
    LET h == DequeAppend(price_history, price)
    IN  IF Len(h) < LONG_MA
        THEN [history |-> h, signal |-> "HOLD", short_ma |-> ZERO, long_ma |-> ZERO]
        ELSE LET short_ma == FDivInt(sum(LastN(h, SHORT_MA)), SHORT_MA)
                 long_ma == FDivInt(sum(h), LONG_MA)
             IN  [history |-> h, signal |-> Crossover(short_ma, long_ma),
                  short_ma |-> short_ma, long_ma |-> long_ma]

\* ---------------------------------------------------------------- state
VARIABLES
    pc,                  \* position of main: "preload", "preload15", "session",
                         \* "loop", "fetch", "fetched", "sleep", "stopped";
                         \* "call"/"return" for the specifications of the pure
                         \* functions
    idx,                 \* position of the for loop over TICKERS (lines 96, 123)
    clock,               \* the wall clock, datetime.now(eastern)
    start,               \* now of line 102, which fixes market_open and market_close
    now,                 \* now of line 110
    tv_interval,         \* "1m" or "15m" (lines 114, 117); selects history
    sleep_interval,      \* lines 113, 120, in milliseconds
    price_history_1min,  \* ticker -> window (line 91)
    price_history_15min, \* ticker -> window (line 92)
    last_signal,         \* ticker -> "None", "BUY", "SELL", "HOLD" (line 93)
    log,                 \* the rows appended by log_signal
    attempt,             \* line 23
    outcomes,            \* upstream answers received by the running get_tradingview_price
    current_price,       \* line 124
    appended_1min,       \* history: every price appended to the 1-minute window
    appended_15min,      \* history: every price appended to the 15-minute window
    tick_fetched,        \* history: tickers fetched in the running iteration
    tick_failed,         \* history: tickers whose fetch failed in the running iteration
    ticks,               \* polling iterations started
    quotes,              \* successful upstream answers so far
    limited_calls,       \* calls of get_tradingview_price that have met a 429,
                         \* counted up to MaxLimitedCalls
    preload_log,         \* history: the upstream calls of the preload, in order,
                         \* each with its ticker, interval and answer
    feed,                \* the upstream: "any" (a price of QuotedPrices, a 429
                         \* or another error), "quotes" (a price of
                         \* QuotedPrices or an error other than 429), "ascending" (the prices 1, 2,
                         \* ..., a 429 or another error), or an outage: "limited"
                         \* (429 to every call), "missing" (another error to
                         \* every call)
    arg,                 \* argument of the pure function under check
    ret                  \* its result

vars == <<pc, idx, clock, start, now, tv_interval, sleep_interval,
          price_history_1min, price_history_15min, last_signal, log,
          attempt, outcomes, current_price, appended_1min, appended_15min,
          tick_fetched, tick_failed, ticks, quotes, limited_calls, preload_log,
          feed, arg, ret, interpreter>>

Time(h, m, s) == Seconds(h * 3600 + m * 60 + s)

\* The sleeps of the preload loop (lines 98, 100), over all tickers.
PreloadDuration == NumTickers * 2 * PRELOAD_DELAY_MS

\* The reading of line 102 one minute before high_freq_end.
HandoverRead == Time(OPEN_HOUR, OPEN_MINUTE + HIGH_FREQ_DURATION - 1, 0)

\* The reading of line 102 two seconds before market_close.
LastRead == Time(CLOSE_HOUR - 1, 59, 58)

\* Readings of the clock by line 102 in the runs explored: before the open, in
\* the last minute of the high-frequency phase, just before and just after the
\* close.
SessionReads ==
    {Time(9, 29, 20) + 600, HandoverRead, LastRead, Time(CLOSE_HOUR, 0, 0) + 1}

\* The time of day at which main is entered for line 102 to read t.
EntryFor(t) == t - PreloadDuration

\* Times of day at which main is entered.
StartTimes == {EntryFor(t) : t \in SessionReads \ {HandoverRead}}

HistoryOf(interval) ==
    IF interval = "1m" THEN price_history_1min ELSE price_history_15min

AppendedOf(interval) ==
    IF interval = "1m" THEN appended_1min ELSE appended_15min

\* ------------------------------------------------------------- upstream
\* The prices the upstream may answer for ticker t, having served `served`
\* successful answers so far.
OkPrices(t, served) ==
    IF feed = "ascending"
    THEN {FloatOfInt(Len(AppendedOf(tv_interval)[t]) + 1)}
    ELSE IF feed \in {"any", "quotes"} /\ served < MaxQuotes THEN QuotedPrices
    ELSE {}

RateLimitedAnswer == [kind |-> "RateLimited", price |-> NONE]

UnavailableAnswer == [kind |-> "Unavailable", price |-> NONE]

Failures == {RateLimitedAnswer, UnavailableAnswer}

\* The failures the upstream may answer to a call that has met n 429s, `limited`
\* earlier calls of get_tradingview_price having met one.
FailuresNow(limited, n) ==
    IF feed = "limited" THEN {RateLimitedAnswer}
    ELSE IF feed \in {"missing", "quotes"} THEN {UnavailableAnswer}
    ELSE IF n > 0 \/ limited < MaxLimitedCalls THEN Failures
    ELSE {UnavailableAnswer}

Answers(prices, failures) == {[kind |-> "Ok", price |-> p] : p \in prices} \cup failures

CountOk(os) == Cardinality({i \in DOMAIN os : os[i].kind = "Ok"})

\* ---------------------------------------------------------------- Init
NoCall ==
    /\ attempt = 0
    /\ outcomes = <<>>
    /\ current_price = NONE

\* The state at the entry of main, but for the position of the preload loop
\* and the calls it has made.
InitData ==
    /\ interpreter \in Interpreters
    /\ tv_interval = "1m"
    /\ sleep_interval = 0
    /\ price_history_1min = [t \in TICKERS |-> <<>>]
    /\ price_history_15min = [t \in TICKERS |-> <<>>]
    /\ last_signal = [t \in TICKERS |-> "None"]
    /\ log = <<>>
    /\ NoCall
    /\ appended_1min = [t \in TICKERS |-> <<>>]
    /\ appended_15min = [t \in TICKERS |-> <<>>]
    /\ tick_fetched = {}
    /\ tick_failed = {}
    /\ ticks = 0
    /\ quotes = 0
    /\ limited_calls = 0

InitProgram ==
    /\ InitData
    /\ idx = 1
    /\ preload_log = <<>>

Init ==
    /\ InitProgram
    /\ pc = "preload"
    /\ clock \in StartTimes
    /\ start = 0
    /\ now = 0
    /\ feed = "quotes"
    /\ arg = <<>>
    /\ ret = <<>>

\* ------------------------------------------------------------- preload
\* preload_price_history (lines 72-86): the window after one attempt.
preload_price_historyMutShort(history_deque, answer) ==
    IF answer.kind = "Ok"
    THEN AppendTimes(history_deque, answer.price, LONG_MA - 1)
    ELSE history_deque

preload_price_history(history_deque, answer) ==
    IF answer.kind = "Ok"
    THEN AppendTimes(history_deque, answer.price, LONG_MA)
    ELSE history_deque

\* What preload_price_history appends.
Preloaded(answer) ==
    IF answer.kind = "Ok" THEN [i \in 1..LONG_MA |-> answer.price] ELSE <<>>

\* One upstream call of preload_price_history (lines 75-76) and its answer.
PreloadCall(t, interval, answer) ==
    [ticker |-> t, interval |-> interval, answer |-> answer]

\* Lines 97-98: the preload of the 1-minute window of a ticker and the sleep
\* after it.
Preload1m ==
    /\ pc = "preload"
    /\ \E a \in Answers(OkPrices(idx, quotes), FailuresNow(0, 0)) :
          /\ price_history_1min' = [price_history_1min EXCEPT
                ![idx] = preload_price_history(@, a)]
          /\ appended_1min' = [appended_1min EXCEPT ![idx] = @ \o Preloaded(a)]
          /\ quotes' = quotes + CountOk(<<a>>)
          /\ preload_log' = Append(preload_log, PreloadCall(idx, "1m", a))
    /\ clock' = clock + PRELOAD_DELAY_MS
    /\ pc' = "preload15"
    /\ UNCHANGED <<interpreter, idx, start, now, tv_interval, sleep_interval,
                   price_history_15min, last_signal, log, attempt, outcomes,
                   current_price, appended_15min, tick_fetched, tick_failed,
                   ticks, limited_calls, feed, arg, ret>>

\* Lines 99-100: the preload of the 15-minute window and the sleep after it.
Preload15m ==
    /\ pc = "preload15"
    /\ \E a \in Answers(OkPrices(idx, quotes), FailuresNow(0, 0)) :
          /\ price_history_15min' = [price_history_15min EXCEPT
                ![idx] = preload_price_history(@, a)]
          /\ appended_15min' = [appended_15min EXCEPT ![idx] = @ \o Preloaded(a)]
          /\ quotes' = quotes + CountOk(<<a>>)
          /\ preload_log' = Append(preload_log, PreloadCall(idx, "15m", a))
    /\ clock' = clock + PRELOAD_DELAY_MS
    /\ IF idx < NumTickers
       THEN idx' = idx + 1 /\ pc' = "preload"
       ELSE idx' = 0 /\ pc' = "session"
    /\ UNCHANGED <<interpreter, start, now, tv_interval, sleep_interval, price_history_1min,
                   last_signal, log, attempt, outcomes, current_price,
                   appended_1min, tick_fetched, tick_failed, ticks, limited_calls,
                   feed, arg, ret>>

\* Lines 102-107.
ReadSession ==
    /\ pc = "session"
    /\ start' = clock
    /\ now' = clock
    /\ pc' = "loop"
    /\ UNCHANGED <<interpreter, idx, clock, tv_interval, sleep_interval, price_history_1min,
                   price_history_15min, last_signal, log, attempt, outcomes,
                   current_price, appended_1min, appended_15min, tick_fetched,
                   tick_failed, ticks, quotes, limited_calls, preload_log, feed, arg, ret>>

\* ---------------------------------------------------------- polling loop
\* The polling iterations explored in one run.
TickCap ==
    IF feed = "ascending" THEN LONG_MA + MaxTicks
    ELSE IF feed \in {"any", "quotes"} THEN MaxTicks
    ELSE MaxLiveTicks

\* Lines 110-120: an iteration that finds the market open.
TickBegin ==
    /\ pc = "loop"
    /\ PhaseOf(start, clock) \in {"HighFrequency", "LowFrequency"}
    /\ ticks < TickCap
    /\ now' = clock
    /\ tv_interval' = IntervalOf(PhaseOf(start, clock))
    /\ sleep_interval' = SleepIntervalOf(PhaseOf(start, clock), clock, clock)
    /\ ticks' = ticks + 1
    /\ idx' = 1
    /\ pc' = "fetch"
    /\ UNCHANGED <<interpreter, clock, start, price_history_1min, price_history_15min,
                   last_signal, log, attempt, outcomes, current_price,
                   appended_1min, appended_15min, tick_fetched, tick_failed,
                   quotes, limited_calls, preload_log, feed, arg, ret>>

\* Lines 110, 139-141.
Stop ==
    /\ pc = "loop"
    /\ PhaseOf(start, clock) = "Closed"
    /\ now' = clock
    /\ pc' = "stopped"
    /\ UNCHANGED <<interpreter, idx, clock, start, tv_interval, sleep_interval,
                   price_history_1min, price_history_15min, last_signal, log,
                   attempt, outcomes, current_price, appended_1min,
                   appended_15min, tick_fetched, tick_failed, ticks, quotes,
                   limited_calls, preload_log, feed, arg, ret>>

\* Lines 110, 142-145.
WaitForOpen ==
    /\ pc = "loop"
    /\ PhaseOf(start, clock) = "BeforeOpen"
    /\ now' = clock
    /\ clock' = clock + Seconds(WaitSeconds(start, clock))
    /\ UNCHANGED <<interpreter, pc, idx, start, tv_interval, sleep_interval,
                   price_history_1min, price_history_15min, last_signal, log,
                   attempt, outcomes, current_price, appended_1min,
                   appended_15min, tick_fetched, tick_failed, ticks, quotes,
                   limited_calls, preload_log, feed, arg, ret>>

\* ------------------------------------------------- get_tradingview_price
\* Line 31: "429" in err_msg.
IsRateLimitMutAnyError(kind) == kind # "Ok"

IsRateLimit(kind) == kind = "RateLimited"

\* Line 24: the loop condition.
KeepTryingMutOneMore(n) == n <= RETRIES

KeepTrying(n) == n < RETRIES

\* One pass of the while loop of lines 24-37, with the test that follows it.
Fetch ==
    /\ pc = "fetch"
    /\ \E a \in Answers(OkPrices(idx, quotes), FailuresNow(limited_calls, attempt)) :
          /\ outcomes' = Append(outcomes, a.kind)
          /\ quotes' = quotes + CountOk(<<a>>)
          /\ limited_calls' = IF /\ a.kind = "RateLimited"
                                 /\ attempt = 0
                                 /\ limited_calls < MaxLimitedCalls
                              THEN limited_calls + 1 ELSE limited_calls
          /\ IF a.kind = "Ok"
             THEN /\ current_price' = a.price
                  /\ attempt' = attempt
                  /\ clock' = clock
                  /\ pc' = "fetched"
             ELSE IF IsRateLimit(a.kind)
             THEN /\ attempt' = attempt + 1
                  /\ current_price' = NONE
                  /\ clock' = clock + Seconds(RETRY_DELAY)
                  /\ pc' = IF KeepTrying(attempt + 1) THEN "fetch" ELSE "fetched"
             ELSE /\ current_price' = NONE
                  /\ attempt' = attempt
                  /\ clock' = clock
                  /\ pc' = "fetched"
    /\ tick_fetched' = tick_fetched \cup {idx}
    /\ UNCHANGED <<interpreter, idx, start, now, tv_interval, sleep_interval,
                   price_history_1min, price_history_15min, last_signal, log,
                   appended_1min, appended_15min, tick_failed, ticks, preload_log, feed,
                   arg, ret>>

\* ------------------------------------------------ lines 125-135 of main
\* Line 129.
ChangedMutAlways(signal, last) == TRUE

ChangedMutNever(signal, last) == FALSE

Changed(signal, last) == signal # last

\* Where the for loop of line 123 goes after ticker i.
NextTicker(i) ==
    IF i < NumTickers THEN [pc |-> "fetch", idx |-> i + 1]
    ELSE [pc |-> "sleep", idx |-> 0]

\* Line 126: continue.
AfterSkipMutBreak(i) == [pc |-> "sleep", idx |-> 0]

AfterSkip(i) == NextTicker(i)

\* The arguments of log_signal (line 132) other than the timestamp.
SignalRecord(t, price, r) ==
    [ticker |-> t, price |-> price, short_ma |-> r.short_ma,
     long_ma |-> r.long_ma, signal |-> r.signal]

\* Lines 125-135 for the ticker just fetched.
Process ==
    /\ pc = "fetched"
    /\ IF current_price = NONE
       THEN /\ pc' = AfterSkip(idx).pc
            /\ idx' = AfterSkip(idx).idx
            /\ tick_failed' = tick_failed \cup {idx}
            /\ UNCHANGED <<clock, price_history_1min, price_history_15min,
                           last_signal, log, appended_1min, appended_15min>>
       ELSE LET r == get_swing_signal(HistoryOf(tv_interval)[idx], current_price)
            IN  /\ IF tv_interval = "1m"
                   THEN /\ price_history_1min' =
                              [price_history_1min EXCEPT ![idx] = r.history]
                        /\ appended_1min' =
                              [appended_1min EXCEPT ![idx] = Append(@, current_price)]
                        /\ UNCHANGED <<price_history_15min, appended_15min>>
                   ELSE /\ price_history_15min' =
                              [price_history_15min EXCEPT ![idx] = r.history]
                        /\ appended_15min' =
                              [appended_15min EXCEPT ![idx] = Append(@, current_price)]
                        /\ UNCHANGED <<price_history_1min, appended_1min>>
                /\ IF Changed(r.signal, last_signal[idx])
                   THEN /\ log' = Append(log, SignalRecord(idx, current_price, r))
                        /\ last_signal' = [last_signal EXCEPT ![idx] = r.signal]
                   ELSE UNCHANGED <<log, last_signal>>
                /\ clock' = clock + Seconds(STAGGER_DELAY)
                /\ pc' = NextTicker(idx).pc
                /\ idx' = NextTicker(idx).idx
                /\ UNCHANGED tick_failed
    /\ attempt' = 0
    /\ outcomes' = <<>>
    /\ current_price' = NONE
    /\ UNCHANGED <<interpreter, start, now, tv_interval, sleep_interval, tick_fetched,
                   ticks, quotes, limited_calls, preload_log, feed, arg, ret>>

\* Line 137.
Sleep ==
    /\ pc = "sleep"
    /\ clock' = clock + sleep_interval
    /\ pc' = "loop"
    /\ tick_fetched' = {}
    /\ tick_failed' = {}
    /\ UNCHANGED <<interpreter, idx, start, now, tv_interval, sleep_interval,
                   price_history_1min, price_history_15min, last_signal, log,
                   attempt, outcomes, current_price, appended_1min,
                   appended_15min, ticks, quotes, limited_calls, preload_log, feed, arg, ret>>

Next ==
    \/ Preload1m
    \/ Preload15m
    \/ ReadSession
    \/ TickBegin
    \/ Stop
    \/ WaitForOpen
    \/ Fetch
    \/ Process
    \/ Sleep

Spec == Init /\ [][Next]_vars

\* ------------------------------------- the last high-frequency minute and after
\* main entered for line 102 to read HandoverRead: one iteration of the
\* high-frequency phase, then the low-frequency phase.
InitHandover ==
    /\ InitProgram
    /\ pc = "preload"
    /\ clock = EntryFor(HandoverRead)
    /\ start = 0
    /\ now = 0
    /\ feed = "quotes"
    /\ arg = <<>>
    /\ ret = <<>>

NextHandover ==
    \/ Preload1m
    \/ Preload15m
    \/ ReadSession
    \/ TickBegin
    \/ Fetch
    \/ Process
    \/ Sleep

SpecHandover == InitHandover /\ [][NextHandover]_vars

\* ------------------------------------------------------- the preload alone
\* main entered for line 102 to read HandoverRead, the upstream answering each
\* preload with a price of Prices, a 429 or another error: lines 96-107.
InitPreload ==
    /\ InitProgram
    /\ pc = "preload"
    /\ clock = EntryFor(HandoverRead)
    /\ start = 0
    /\ now = 0
    /\ feed = "any"
    /\ arg = <<>>
    /\ ret = <<>>

NextPreload ==
    \/ Preload1m
    \/ Preload15m
    \/ ReadSession

SpecPreload == InitPreload /\ [][NextPreload]_vars

\* ------------------------------------------------ an upstream that answers 429
\* main entered for line 102 to read LastRead, the upstream answering a price,
\* a 429 or another error: the last iteration of the day, then the close.
InitThrottle ==
    /\ InitProgram
    /\ pc = "preload"
    /\ clock = EntryFor(LastRead)
    /\ start = 0
    /\ now = 0
    /\ feed = "ascending"
    /\ arg = <<>>
    /\ ret = <<>>

NextThrottle ==
    \/ Preload1m
    \/ Preload15m
    \/ ReadSession
    \/ TickBegin
    \/ Stop
    \/ Fetch
    \/ Process
    \/ Sleep

SpecThrottle == InitThrottle /\ [][NextThrottle]_vars

\* ------------------------------------------ a fresh tracker, prices 1, 2, 3, ...
\* main at the open, entered PreloadDuration earlier, with every preload
\* answered by an error other than 429: empty windows, no signal yet. The
\* upstream answers the k-th successful fetch of a ticker with the price k.
FailedPreloads ==
    [k \in 1..(2 * NumTickers) |->
        PreloadCall((k + 1) \div 2, IF k % 2 = 1 THEN "1m" ELSE "15m",
                    UnavailableAnswer)]

InitE2E ==
    /\ InitData
    /\ idx = 0
    /\ preload_log = FailedPreloads
    /\ pc = "loop"
    /\ clock = Time(OPEN_HOUR, OPEN_MINUTE, 0)
    /\ start = clock
    /\ now = clock
    /\ feed = "ascending"
    /\ arg = <<>>
    /\ ret = <<>>

NextE2E ==
    \/ TickBegin
    \/ Fetch
    \/ Process
    \/ Sleep

SpecE2E == InitE2E /\ [][NextE2E]_vars

\* --------------------------------------------------- get_swing_signal alone
\* The window of length n that is base everywhere but on S, where it is other.
EditedWindow(n, base, S, other) == [i \in 1..n |-> IF i \in S THEN other ELSE base]

\* The sets of at most MaxEdits positions of a window of length n.
EditSets(n) == {E \in SUBSET (1..n) : Cardinality(E) <= MaxEdits}

WindowLens == {0, LONG_MA - 2, LONG_MA - 1, LONG_MA}

InitIdle ==
    /\ InitProgram
    /\ ret = <<>>
    /\ clock = 0
    /\ start = 0
    /\ now = 0
    /\ feed = "quotes"
    /\ pc = "call"

\* Windows and prices of decimal closes, and windows and prices of whole closes.
InitSignal ==
    /\ InitIdle
    /\ \E pool \in {Prices, WholePrices} :
       \E n \in WindowLens : \E base \in pool : \E S \in EditSets(n) :
       \E other \in pool \ {base} : \E p \in pool :
          arg = [price_history |-> EditedWindow(n, base, S, other), current_price |-> p]

CallSwingSignal ==
    /\ pc = "call"
    /\ ret' = get_swing_signal(arg.price_history, arg.current_price)
    /\ pc' = "return"
    /\ UNCHANGED <<interpreter, idx, clock, start, now, tv_interval, sleep_interval,
                   price_history_1min, price_history_15min, last_signal, log,
                   attempt, outcomes, current_price, appended_1min,
                   appended_15min, tick_fetched, tick_failed, ticks, quotes,
                   limited_calls, preload_log, feed, arg>>

SpecSignal == InitSignal /\ [][CallSwingSignal]_vars

\* ------------------------------------------- the session policy of main alone
\* The fractions of a second, in milliseconds, of the clock readings explored.
Fractions == {0, 600, 999}

\* Readings of the clock by line 110, for a run whose line 102 read midnight or
\* one of SessionReads: the rest of that day and the first minutes of the next.
InitPhase ==
    /\ InitIdle
    /\ \E s \in SessionReads \cup {Time(0, 0, 0)} :
       \E t \in (s \div Seconds(1))..((DAY + Seconds(GRID_MINUTES * 60)) \div Seconds(1)) :
       \E f \in {0, 600} :
          /\ Seconds(t) + f >= s
          /\ arg = [start |-> s, now |-> Seconds(t) + f]

\* The branch of lines 111-145 taken for arg.now and what it selects; sleep is
\* in milliseconds.
ClassifyPhase ==
    /\ pc = "call"
    /\ LET phase == PhaseOf(arg.start, arg.now)
       IN  ret' = [phase |-> phase,
                   tv_interval |-> IF phase \in {"HighFrequency", "LowFrequency"}
                                   THEN IntervalOf(phase) ELSE "-",
                   sleep |-> IF phase \in {"HighFrequency", "LowFrequency"}
                             THEN SleepIntervalOf(phase, arg.now, arg.now)
                             ELSE IF phase = "BeforeOpen"
                             THEN Seconds(WaitSeconds(arg.start, arg.now))
                             ELSE 0]
    /\ pc' = "return"
    /\ UNCHANGED <<interpreter, idx, clock, start, now, tv_interval, sleep_interval,
                   price_history_1min, price_history_15min, last_signal, log,
                   attempt, outcomes, current_price, appended_1min,
                   appended_15min, tick_fetched, tick_failed, ticks, quotes,
                   limited_calls, preload_log, feed, arg>>

SpecPhase == InitPhase /\ [][ClassifyPhase]_vars

\* ------------------------------------------------- get_next_10min_run alone
\* Every second of a day, with each of Fractions, as the argument.
InitGrid ==
    /\ InitIdle
    /\ \E t \in 0..((DAY \div Seconds(1)) - 1) : \E f \in Fractions :
          arg = [now |-> Seconds(t) + f]

CallNextRun ==
    /\ pc = "call"
    /\ ret' = [next_run |-> get_next_10min_run(arg.now)]
    /\ pc' = "return"
    /\ UNCHANGED <<interpreter, idx, clock, start, now, tv_interval, sleep_interval,
                   price_history_1min, price_history_15min, last_signal, log,
                   attempt, outcomes, current_price, appended_1min,
                   appended_15min, tick_fetched, tick_failed, ticks, quotes,
                   limited_calls, preload_log, feed, arg>>

SpecGrid == InitGrid /\ [][CallNextRun]_vars

\* ------------------------------------------- whole sessions, upstream in outage
\* main entered at any of LiveStarts with an upstream that answers 429 to every
\* call, or another error to every call, so that a run is the schedule of a whole
\* day. The loop is the only thread and every call and sleep returns: weak
\* fairness of Next.
LiveStarts ==
    {Time(h, m, s) + f : h \in {0, 8, 9, 10, 13, 15, 16, 23},
                         m \in {0, 29, 30, 59}, s \in {0, 45}, f \in {0, 600}}

InitLive ==
    /\ InitProgram
    /\ pc = "preload"
    /\ clock \in LiveStarts
    /\ start = 0
    /\ now = 0
    /\ feed \in {"limited", "missing"}
    /\ arg = <<>>
    /\ ret = <<>>

SpecLive == InitLive /\ [][Next]_vars /\ WF_vars(Next)

\* -------------------------------------- the sleep of a polling iteration alone
\* Every reading now of line 110 between market_open and market_close, with the
\* reading now2 of line 120 up to MaxDrift milliseconds later.
InitSleep ==
    /\ InitIdle
    /\ \E t \in (market_open(0) \div Seconds(1))..(market_close(0) \div Seconds(1)) :
       \E f \in Fractions : \E d \in 0..MaxDrift :
          /\ Seconds(t) + f <= market_close(0)
          /\ arg = [start |-> 0, now |-> Seconds(t) + f, now2 |-> Seconds(t) + f + d]

\* Lines 112-120.
PlanSleep ==
    /\ pc = "call"
    /\ PhaseOf(arg.start, arg.now) \in {"HighFrequency", "LowFrequency"}
    /\ ret' = [phase |-> PhaseOf(arg.start, arg.now),
               sleep |-> SleepIntervalOf(PhaseOf(arg.start, arg.now),
                                         arg.now, arg.now2)]
    /\ pc' = "return"
    /\ UNCHANGED <<interpreter, idx, clock, start, now, tv_interval, sleep_interval,
                   price_history_1min, price_history_15min, last_signal, log,
                   attempt, outcomes, current_price, appended_1min,
                   appended_15min, tick_fetched, tick_failed, ticks, quotes,
                   limited_calls, preload_log, feed, arg>>

SpecSleep == InitSleep /\ [][PlanSleep]_vars

\* ---------------------------------------------- get_tradingview_price alone
\* The answers the upstream has ready: one more than the retry budget.
Scripts == [1..(RETRIES + 1) -> Answers(Prices, Failures)]

\* get_tradingview_price (lines 21-39) called at time 0 against an upstream
\* that answers its calls with script[1], script[2], ...
InitRetry ==
    /\ InitIdle
    /\ \E s \in Scripts : arg = [script |-> s]

\* What the function has returned: the price (NONE for None), with the upstream
\* calls made and the final attempt.
Returned(price, calls, n) == [price |-> price, calls |-> calls, attempt |-> n]

\* One pass of the while loop of lines 24-37, with the test that follows it:
\* the upstream call, and after a 429 the sleep of line 34.
CallGetPrice ==
    /\ pc = "call"
    /\ LET a == arg.script[Len(outcomes) + 1]
           calls == Len(outcomes) + 1
       IN  /\ outcomes' = Append(outcomes, a.kind)
           /\ IF a.kind = "Ok"
              THEN /\ current_price' = a.price
                   /\ attempt' = attempt
                   /\ clock' = clock
                   /\ pc' = "return"
                   /\ ret' = Returned(a.price, calls, attempt)
              ELSE IF IsRateLimit(a.kind)
              THEN /\ attempt' = attempt + 1
                   /\ current_price' = NONE
                   /\ clock' = clock + Seconds(RETRY_DELAY)
                   /\ IF KeepTrying(attempt + 1)
                      THEN pc' = "call" /\ ret' = ret
                      ELSE pc' = "return" /\ ret' = Returned(NONE, calls, attempt + 1)
              ELSE /\ current_price' = NONE
                   /\ attempt' = attempt
                   /\ clock' = clock
                   /\ pc' = "return"
                   /\ ret' = Returned(NONE, calls, attempt)
    /\ UNCHANGED <<interpreter, idx, start, now, tv_interval, sleep_interval,
                   price_history_1min, price_history_15min, last_signal, log,
                   appended_1min, appended_15min, tick_fetched, tick_failed,
                   ticks, quotes, limited_calls, preload_log, feed, arg>>

SpecRetry == InitRetry /\ [][CallGetPrice]_vars

\* ================================================================ claims
RecordsOf(t) == SelectSeq(log, LAMBDA r : r.ticker = t)

IsSentinel(r) == r.signal = "HOLD" /\ r.short_ma = ZERO /\ r.long_ma = ZERO

ConsecutiveDiffer(l) ==
    \A i \in 1..Len(l), j \in 1..Len(l) :
        ( /\ i < j
          /\ l[i].ticker = l[j].ticker
          /\ \A k \in (i + 1)..(j - 1) : l[k].ticker # l[i].ticker )
        => l[i].signal # l[j].signal

\* C1. Change detection: a successful fetch whose freshly computed signal equals
\* last_signal of the instrument appends no record, and after every step any two
\* consecutive records of the same instrument in the log carry different signals.
C1_ChangeDetection ==
    [][ /\ ( /\ pc = "fetched"
             /\ current_price # NONE
             /\ get_swing_signal(HistoryOf(tv_interval)[idx], current_price).signal
                  = last_signal[idx] )
           => log' = log
        /\ ConsecutiveDiffer(log') ]_vars

\* An instrument preloaded on its 1-minute window and observed twice since, with
\* one record only: the second observation repeated the signal and logged nothing.
C1_Witness ==
    \E t \in TICKERS :
        /\ Len(appended_1min[t]) = LONG_MA + 2
        /\ Len(RecordsOf(t)) = 1
        /\ last_signal[t] \in {"BUY", "SELL"}

\* C2. Once a record with a real signal (averages of a full window) has been
\* logged for an instrument, no later record of that instrument is the
\* insufficient-data sentinel (HOLD, 0, 0).
C2_NoSentinelAfterReal ==
    \A i \in 1..Len(log), j \in 1..Len(log) :
        (i < j /\ log[i].ticker = log[j].ticker /\ ~IsSentinel(log[i]))
        => ~IsSentinel(log[j])

\* C3. A fresh instrument fed the prices 1, 2, 3, ... on its 1-minute window:
\* the signal computed for the k-th price is the sentinel for k <= 14 and
\* BUY with short average 13 and long average 8 for k = 15, and once 15 prices
\* are in, exactly one record has been logged for the instrument.
C3_EndToEnd ==
    \A t \in TICKERS :
        /\ (pc = "fetched" /\ idx = t /\ current_price # NONE) =>
              LET k == Len(appended_1min[t]) + 1
                  r == get_swing_signal(price_history_1min[t], current_price)
              IN  /\ k <= LONG_MA - 1 =>
                        (r.signal = "HOLD" /\ r.short_ma = ZERO /\ r.long_ma = ZERO)
                  /\ k = LONG_MA =>
                        ( /\ r.signal = "BUY"
                          /\ r.short_ma = FloatOfInt(13)
                          /\ r.long_ma = FloatOfInt(8) )
        /\ Len(appended_1min[t]) = LONG_MA => Len(RecordsOf(t)) = 1

AllRateLimited(os) == \A i \in DOMAIN os : os[i] = "RateLimited"

\* C4. When get_tradingview_price has returned and every upstream answer was
\* RateLimited, the upstream was called exactly RETRIES times and no price is
\* returned; the step of main that follows leaves both windows, last_signal and
\* the log unchanged and goes on with the next ticker or the sleep of the tick.
C4_RetryBound ==
    [][ (pc = "fetched" /\ AllRateLimited(outcomes)) =>
           /\ Len(outcomes) = RETRIES
           /\ current_price = NONE
           /\ UNCHANGED <<price_history_1min, price_history_15min, last_signal, log>>
           /\ \/ pc' = "fetch" /\ idx' = idx + 1
              \/ pc' = "sleep" /\ idx = NumTickers ]_vars

C4_Witness ==
    /\ pc = "fetched"
    /\ outcomes = <<"RateLimited", "RateLimited", "RateLimited">>
    /\ current_price = NONE

\* C5. An Unavailable answer is the last upstream call of its
\* get_tradingview_price: the function has returned, with no price, whatever the
\* number of RateLimited answers before it.
C5_UnavailableNoRetry ==
    \A i \in DOMAIN outcomes :
        outcomes[i] = "Unavailable" =>
            (i = Len(outcomes) /\ pc = "fetched" /\ current_price = NONE)

C5_Witness ==
    /\ pc = "fetched"
    /\ outcomes = <<"RateLimited", "RateLimited", "Unavailable">>

\* C6. Failure isolation: a failed fetch leaves the windows and last_signal of
\* its instrument and the log unchanged and the for loop goes on with the next
\* instrument; when a polling iteration reaches its sleep, every configured
\* instrument has been fetched in it.
C6_FailureIsolation ==
    [][ /\ (pc = "fetched" /\ current_price = NONE) =>
              /\ price_history_1min'[idx] = price_history_1min[idx]
              /\ price_history_15min'[idx] = price_history_15min[idx]
              /\ last_signal'[idx] = last_signal[idx]
              /\ log' = log
              /\ IF idx < NumTickers
                 THEN pc' = "fetch" /\ idx' = idx + 1
                 ELSE pc' = "sleep"
        /\ (pc # "sleep" /\ pc' = "sleep") => tick_fetched' = TICKERS ]_vars

\* The first polling iteration is over; an instrument failed in it and a later
\* instrument of the same iteration was observed and logged.
C6_Witness ==
    /\ pc = "sleep"
    /\ ticks = 1
    /\ \E f \in tick_failed : \E t \in TICKERS \ tick_failed :
          /\ f < t
          /\ Len(RecordsOf(t)) = 1
          /\ Len(AppendedOf(tv_interval)[t]) \in {1, LONG_MA + 1}

WindowHoldsLast(w, appended) ==
    /\ Len(w) <= LONG_MA
    /\ Len(appended) >= LONG_MA =>
          w = SubSeq(appended, Len(appended) - LONG_MA + 1, Len(appended))

\* C7. Every window has at most LONG_MA entries, and once LONG_MA prices have
\* been appended to it, it is the last LONG_MA appended prices in arrival order.
C7_WindowBoundFifo ==
    \A t \in TICKERS :
        /\ WindowHoldsLast(price_history_1min[t], appended_1min[t])
        /\ WindowHoldsLast(price_history_15min[t], appended_15min[t])

\* A preloaded window that has evicted two entries for two observations, the
\* newest differing from the one before it.
C7_Witness ==
    \E t \in TICKERS :
        /\ Len(appended_1min[t]) = LONG_MA + 2
        /\ price_history_1min[t][LONG_MA] # price_history_1min[t][LONG_MA - 1]
        /\ price_history_1min[t][1] = appended_1min[t][3]

\* The window get_swing_signal computes on: the last LONG_MA of the old window
\* followed by the new price.
WindowAfter(w, p) ==
    LET all == w \o <<p>>
    IN  IF Len(all) <= LONG_MA THEN all
        ELSE [i \in 1..LONG_MA |-> all[i + Len(all) - LONG_MA]]

IsWhole(x) == x \in WholePrices

\* The integer a whole close stands for.
WholeValue(x) == CHOOSE k \in 1..MaxPrice : FloatOfInt(k) = x

\* The exact sum of the entries lo..hi of a window of whole closes.
RECURSIVE SumRange(_, _, _)
SumRange(w, lo, hi) ==
    IF lo > hi THEN 0 ELSE WholeValue(w[lo]) + SumRange(w, lo + 1, hi)

\* C8. On a full window of integer prices get_swing_signal returns BUY iff the
\* mean of the last SHORT_MA prices is greater than the mean of all LONG_MA
\* prices, SELL iff it is smaller and HOLD iff the two are equal (means compared
\* as exact fractions).
C8_SignalCorrect ==
    ( /\ pc = "return"
      /\ Len(arg.price_history) >= LONG_MA - 1
      /\ IsWhole(arg.current_price)
      /\ \A i \in DOMAIN arg.price_history : IsWhole(arg.price_history[i]) ) =>
        LET w == WindowAfter(arg.price_history, arg.current_price)
            s5 == SumRange(w, LONG_MA - SHORT_MA + 1, LONG_MA)
            s15 == SumRange(w, 1, LONG_MA)
        IN  /\ ret.signal = "BUY" <=> s5 * LONG_MA > s15 * SHORT_MA
            /\ ret.signal = "SELL" <=> s5 * LONG_MA < s15 * SHORT_MA
            /\ ret.signal = "HOLD" <=> s5 * LONG_MA = s15 * SHORT_MA

\* A full window of integer prices that is not constant and whose two means are
\* equal.
C8_Witness ==
    /\ pc = "return"
    /\ Len(ret.history) = LONG_MA
    /\ ret.signal = "HOLD"
    /\ ret.short_ma # ZERO
    /\ \A i \in 1..LONG_MA : IsWhole(ret.history[i])
    /\ \E i \in 1..LONG_MA : ret.history[i] # ret.history[1]

\* C9. An iteration that reads a time after market_close stops the loop, and
\* once stopped main stays stopped: no upstream call, no change of a window, of
\* last_signal or of the log.
C9_StoppedTerminal ==
    [][ /\ (pc = "loop" /\ clock > Time(CLOSE_HOUR, 0, 0)) => pc' = "stopped"
        /\ pc = "stopped" =>
              /\ pc' = "stopped"
              /\ UNCHANGED <<price_history_1min, price_history_15min, last_signal,
                             log, outcomes, quotes, tick_fetched>> ]_vars

\* Stopped after polling: the run polled, slept past the close and stopped.
C9_Witness ==
    /\ pc = "stopped"
    /\ ticks > 0
    /\ now > Time(CLOSE_HOUR, 0, 0)

\* C10. The branch taken for a reading now of the clock is BeforeOpen iff
\* now < 09:30:00, HighFrequency iff 09:30:00 <= now < 10:00:00, LowFrequency iff
\* 10:00:00 <= now <= 16:00:00 and Closed iff now > 16:00:00; at 10:00:00 exactly
\* the iteration uses the 15-minute resolution and window and sleeps to the next
\* 10-minute mark.
C10_SessionClassification ==
    pc = "return" =>
        LET open == Time(OPEN_HOUR, OPEN_MINUTE, 0)
            cutoff == Time(OPEN_HOUR, OPEN_MINUTE, 0) + Seconds(HIGH_FREQ_DURATION * 60)
            close == Time(CLOSE_HOUR, 0, 0)
        IN  /\ ret.phase = "BeforeOpen" <=> arg.now < open
            /\ ret.phase = "HighFrequency" <=> (open <= arg.now /\ arg.now < cutoff)
            /\ ret.phase = "LowFrequency" <=> (cutoff <= arg.now /\ arg.now <= close)
            /\ ret.phase = "Closed" <=> arg.now > close
            /\ arg.now = cutoff =>
                  /\ ret.tv_interval = "15m"
                  /\ ret.sleep = Seconds(GRID_MINUTES * 60)

C10_Witness ==
    /\ pc = "return"
    /\ arg.now = Time(10, 0, 0)
    /\ ret.phase = "LowFrequency"

\* C11. get_next_10min_run(14:07) is 14:10, get_next_10min_run(14:10) is 14:20,
\* and for every now the result is strictly later than now.
C11_GridAlignment ==
    pc = "return" =>
        /\ arg.now = Time(14, 7, 0) => ret.next_run = Time(14, 10, 0)
        /\ arg.now = Time(14, 10, 0) => ret.next_run = Time(14, 20, 0)
        /\ ret.next_run > arg.now

\* The first instant of the 10-minute grid after t.
NextGridInstant(t) ==
    ((t \div Seconds(GRID_MINUTES * 60)) + 1) * Seconds(GRID_MINUTES * 60)

\* C17. For every time of day get_next_10min_run(now) is the smallest instant of
\* the 10-minute grid strictly later than now, hence at most 10 minutes later.
C17_GridRounding ==
    pc = "return" =>
        /\ ret.next_run = NextGridInstant(arg.now)
        /\ ret.next_run - arg.now <= Seconds(GRID_MINUTES * 60)

PreloadedWindow(w) ==
    \/ w = <<>>
    \/ /\ Len(w) = LONG_MA
       /\ w[1] \in Prices
       /\ \A i \in 1..LONG_MA : w[i] = w[1]

FirstObservationReal(w) ==
    \A p \in Prices :
        LET r == get_swing_signal(w, p)
        IN  Len(r.history) = LONG_MA /\ r.short_ma # ZERO /\ r.long_ma # ZERO

FilledWindows ==
    Cardinality({t \in TICKERS : price_history_1min[t] # <<>>})
    + Cardinality({t \in TICKERS : price_history_15min[t] # <<>>})

\* The preload calls made when main is at pc with the for loop of line 96 on
\* ticker i: both windows of the tickers before i, and the 1-minute window of i
\* once line 97 has run.
PreloadsDone(p, i) ==
    IF p = "preload" THEN 2 * (i - 1)
    ELSE IF p = "preload15" THEN 2 * (i - 1) + 1
    ELSE 2 * NumTickers

\* The k-th window preloaded: ticker (k + 1) \div 2, 1-minute before 15-minute.
PreloadWindow(k) ==
    IF k % 2 = 1 THEN price_history_1min[(k + 1) \div 2]
    ELSE price_history_15min[(k + 1) \div 2]

\* C12. While main preloads and until its first iteration: the upstream has
\* been called exactly once for each window preloaded so far, in the order of
\* lines 96-100, and not for the others (one fetch per instrument and
\* resolution, no retry), and the only time spent is the 1.5 s after each call
\* (no retry delay after a 429); a window whose call answered a price holds
\* LONG_MA copies of that price, and then the first observation on it returns
\* real averages; a window whose call answered RateLimited or Unavailable is
\* empty; the windows not yet preloaded are empty (each call affects its own
\* window only); nothing is logged and no signal is set.
C12_Preload ==
    pc \in {"preload", "preload15", "session"} =>
        /\ Len(preload_log) = PreloadsDone(pc, idx)
        /\ clock = EntryFor(HandoverRead) + Len(preload_log) * PRELOAD_DELAY_MS
        /\ \A k \in 1..Len(preload_log) :
              /\ preload_log[k].ticker = (k + 1) \div 2
              /\ preload_log[k].interval = IF k % 2 = 1 THEN "1m" ELSE "15m"
              /\ preload_log[k].answer.kind = "Ok" =>
                    /\ PreloadWindow(k) =
                          [i \in 1..LONG_MA |-> preload_log[k].answer.price]
                    /\ FirstObservationReal(PreloadWindow(k))
              /\ preload_log[k].answer.kind \in {"RateLimited", "Unavailable"} =>
                    PreloadWindow(k) = <<>>
        /\ \A k \in (Len(preload_log) + 1)..(2 * NumTickers) :
              PreloadWindow(k) = <<>>
        /\ \A t \in TICKERS :
              /\ PreloadedWindow(price_history_1min[t])
              /\ PreloadedWindow(price_history_15min[t])
              /\ last_signal[t] = "None"
        /\ quotes = FilledWindows
        /\ log = <<>>

\* Preload is over: one call answered a price and filled its window, one
\* answered RateLimited and one Unavailable, each leaving its window empty.
C12_Witness ==
    /\ pc = "session"
    /\ \E i, j, k \in 1..Len(preload_log) :
          /\ preload_log[i].answer.kind = "Ok"
          /\ Len(PreloadWindow(i)) = LONG_MA
          /\ preload_log[j].answer.kind = "RateLimited"
          /\ PreloadWindow(j) = <<>>
          /\ preload_log[k].answer.kind = "Unavailable"
          /\ PreloadWindow(k) = <<>>

\* C13. last_signal is None for every instrument at startup; the step of main
\* that follows a successful fetch leaves last_signal of the instrument equal to
\* the signal get_swing_signal has just computed; the step that follows a failed
\* fetch leaves last_signal unchanged; and no step sets a last_signal that is
\* not None back to None.
C13_SignalStateLifecycle ==
    [][ /\ pc \in {"preload", "preload15"} =>
              \A t \in TICKERS : last_signal[t] = "None"
        /\ (pc = "fetched" /\ current_price # NONE) =>
              last_signal'[idx] =
                 get_swing_signal(HistoryOf(tv_interval)[idx], current_price).signal
        /\ (pc = "fetched" /\ current_price = NONE) => last_signal' = last_signal
        /\ \A t \in TICKERS :
              last_signal[t] # "None" => last_signal'[t] # "None" ]_vars

\* In the second iteration: an instrument whose signal was set in the first and
\* whose fetch has now failed.
C13_Witness ==
    /\ ticks = 2
    /\ pc \in {"fetch", "sleep"}
    /\ \E t \in tick_failed : last_signal[t] \in {"BUY", "SELL", "HOLD"}

InHighFrequency(t) ==
    Time(OPEN_HOUR, OPEN_MINUTE, 0) <= t
    /\ t < Time(OPEN_HOUR, OPEN_MINUTE, 0) + Seconds(HIGH_FREQ_DURATION * 60)

\* C14. In an iteration that read a high-frequency time every step leaves the
\* 15-minute windows unchanged and a successful fetch appends its price to the
\* 1-minute window of its instrument; in an iteration that read a low-frequency
\* time every step leaves the 1-minute windows unchanged and a successful fetch
\* appends its price to the 15-minute window of its instrument.
C14_WindowIndependence ==
    [][ (pc \in {"fetch", "fetched"}) =>
           IF InHighFrequency(now)
           THEN /\ price_history_15min' = price_history_15min
                /\ appended_15min' = appended_15min
                /\ (pc = "fetched" /\ current_price # NONE) =>
                      appended_1min'[idx] = Append(appended_1min[idx], current_price)
           ELSE /\ price_history_1min' = price_history_1min
                /\ appended_1min' = appended_1min
                /\ (pc = "fetched" /\ current_price # NONE) =>
                      appended_15min'[idx] = Append(appended_15min[idx], current_price)
      ]_vars

\* An instrument observed at 09:59:00 on its 1-minute window and, a minute and
\* the delay of line 135 later, on its 15-minute window.
C14_Witness ==
    /\ pc = "sleep"
    /\ ticks = 2
    /\ now = Time(10, 0, 1)
    /\ \E t \in TICKERS :
          /\ Len(appended_1min[t]) \in {1, LONG_MA + 1}
          /\ Len(appended_15min[t]) \in {1, LONG_MA + 1}

\* C15. Termination: with every fetch returning and every sleep advancing the
\* clock by the requested duration, main eventually reads a time after
\* market_close and stops, from every start time.
C15_Termination == <>(pc = "stopped")

\* Stopped after a whole session: 30 high-frequency and 37 low-frequency
\* iterations.
C15_Witness ==
    /\ pc = "stopped"
    /\ ticks = HIGH_FREQ_DURATION + 37
    /\ start < Time(OPEN_HOUR, OPEN_MINUTE, 0)

\* sum(w[lo..hi]) as the interpreter computes it.
RECURSIVE FSumRange(_, _, _, _)
FSumRange(acc, w, lo, hi) ==
    IF lo > hi THEN acc ELSE FSumRange(FAdd(acc, w[lo]), w, lo + 1, hi)

\* sum of w[lo], ..., w[hi] as the interpreter of the run computes it: every
\* partial sum rounded, or the compensated sum.
SumOfRange(w, lo, hi) ==
    IF interpreter = "naive" THEN FSumRange(ZERO, w, lo, hi)
    ELSE FSumCompensated(SubSeq(w, lo, hi))

\* C16. get_swing_signal appends the price first; it returns the sentinel
\* (HOLD, 0, 0) exactly when the window after the append has fewer than LONG_MA
\* entries, and with LONG_MA entries it returns the averages of that window, the
\* new price included: the float quotients of the sum of its last SHORT_MA
\* entries by SHORT_MA and of the sum of all its entries by LONG_MA, each sum
\* as the interpreter of the run computes it; on integer prices they are the
\* floats nearest to the exact means under either interpreter.
C16_InsufficientData ==
    pc = "return" =>
        LET w == WindowAfter(arg.price_history, arg.current_price)
        IN  /\ ret.history = w
            /\ w[Len(w)] = arg.current_price
            /\ (ret.signal = "HOLD" /\ ret.short_ma = ZERO /\ ret.long_ma = ZERO)
                  <=> Len(w) < LONG_MA
            /\ Len(w) = LONG_MA =>
                  /\ ret.short_ma =
                        FDivInt(SumOfRange(w, LONG_MA - SHORT_MA + 1, LONG_MA),
                                SHORT_MA)
                  /\ ret.long_ma = FDivInt(SumOfRange(w, 1, LONG_MA), LONG_MA)
                  /\ (\A i \in 1..LONG_MA : IsWhole(w[i])) =>
                        /\ ret.short_ma =
                              FDivInt(FloatOfInt(SumRange(w, LONG_MA - SHORT_MA + 1,
                                                          LONG_MA)), SHORT_MA)
                        /\ ret.long_ma =
                              FDivInt(FloatOfInt(SumRange(w, 1, LONG_MA)), LONG_MA)

\* A window of LONG_MA - 1 entries that becomes full with a price different from
\* its newest entry: real averages are returned.
C16_Witness ==
    /\ pc = "return"
    /\ Len(arg.price_history) = LONG_MA - 1
    /\ arg.price_history[LONG_MA - 1] # arg.current_price
    /\ ret.short_ma # ZERO
    /\ ret.long_ma # ZERO

\* C18. The sleep of a low-frequency iteration is the larger of 5 s and the time
\* from the iteration's reading of the clock on line 120 to the next 10-minute
\* grid instant after its start, so it is at least 5 s and at most 600 s; the
\* sleep of a high-frequency iteration is 60 s; no polling iteration sleeps a zero
\* or negative duration.
C18_LowFrequencyCadence ==
    pc = "return" =>
        /\ ret.phase = "LowFrequency" =>
              /\ ret.sleep = Max(Seconds(MIN_LOW_FREQ_SLEEP),
                                 NextGridInstant(arg.now) - arg.now2)
              /\ ret.sleep >= Seconds(5)
              /\ ret.sleep <= Seconds(600)
        /\ ret.phase = "HighFrequency" => ret.sleep = Seconds(60)
        /\ ret.sleep > 0

\* The grid instant passed between the two readings of the clock: the floor of
\* 5 s applies.
C18_Witness ==
    /\ pc = "return"
    /\ ret.phase = "LowFrequency"
    /\ arg.now < NextGridInstant(arg.now)
    /\ arg.now2 > NextGridInstant(arg.now)
    /\ ret.sleep = Seconds(MIN_LOW_FREQ_SLEEP)

\* The phase the latest iteration of the loop acted on, by what it did: 0 nothing
\* but waiting so far, 1 a tick on the 1-minute resolution, 2 a tick on the
\* 15-minute resolution, 3 stopped.
SeenRank ==
    IF pc = "stopped" THEN 3
    ELSE IF ticks = 0 THEN 0
    ELSE IF tv_interval = "1m" THEN 1
    ELSE 2

\* C19. The phases acted on by successive iterations only move forward in the
\* order BeforeOpen, HighFrequency, LowFrequency, Closed: no step lowers the rank
\* of the phase acted on, the clock never goes back, no iteration waits for the
\* open once a tick has run, and nothing follows the stop.
C19_PhaseMonotonicity ==
    [][ /\ SeenRank' >= SeenRank
        /\ clock' >= clock
        /\ (pc = "loop" /\ ticks > 0) => ~(pc' = "loop" /\ clock' # clock)
        /\ pc = "stopped" => pc' = "stopped"
      ]_vars

\* Entered at 09:29:00, line 102 reading 09:29:06: one wait, thirty 1-minute
\* ticks, and the first 15-minute tick under way.
C19_Witness ==
    /\ pc = "sleep"
    /\ start = Time(9, 29, 0) + PreloadDuration
    /\ ticks = HIGH_FREQ_DURATION + 1
    /\ tv_interval = "15m"
    /\ now = Time(10, 0, 0)

\* The position of the first successful answer of a script, 0 if there is none.
FirstOk(script) ==
    IF \E i \in DOMAIN script : script[i].kind = "Ok"
    THEN CHOOSE i \in DOMAIN script :
            /\ script[i].kind = "Ok"
            /\ \A j \in 1..(i - 1) : script[j].kind # "Ok"
    ELSE 0

OnlyRateLimitedBefore(script, i) ==
    \A j \in 1..(i - 1) : script[j].kind = "RateLimited"

RateLimitedAmong(script, n) ==
    Cardinality({j \in 1..n : script[j].kind = "RateLimited"})

\* C20 as stated: at most RETRIES upstream calls; the price of the first
\* successful answer whenever it is among the first RETRIES answers, and no
\* price otherwise.
C20_FirstSuccessWithinBudget ==
    pc = "return" =>
        LET k == FirstOk(arg.script)
        IN  /\ ret.calls <= RETRIES
            /\ ret.price = IF k \in 1..RETRIES THEN arg.script[k].price ELSE NONE

\* C20. One call of get_tradingview_price makes at least one and at most RETRIES
\* upstream calls; it returns the price of the first successful answer when that
\* answer is among the first RETRIES and every answer before it is RateLimited,
\* and no price otherwise; attempt counts exactly the RateLimited answers
\* received, and the calls stop at the first answer that is not RateLimited.
C20_RetryProtocol ==
    pc = "return" =>
        LET k == FirstOk(arg.script)
            served == k \in 1..RETRIES /\ OnlyRateLimitedBefore(arg.script, k)
        IN  /\ ret.calls \in 1..RETRIES
            /\ ret.price = IF served THEN arg.script[k].price ELSE NONE
            /\ served => ret.calls = k
            /\ ret.attempt = RateLimitedAmong(arg.script, ret.calls)
            /\ OnlyRateLimitedBefore(arg.script, ret.calls)
            /\ ret.calls < RETRIES =>
                  arg.script[ret.calls].kind # "RateLimited"

\* Two RateLimited answers, each followed by the sleep of line 34, then a price
\* on the last call of the budget.
C20_Witness ==
    /\ pc = "return"
    /\ clock = Seconds(2 * RETRY_DELAY)
    /\ arg.script[1].kind = "RateLimited"
    /\ arg.script[2].kind = "RateLimited"
    /\ arg.script[3].kind = "Ok"
    /\ ret.calls = RETRIES
    /\ ret.attempt = 2
    /\ ret.price = arg.script[3].price

====
